---- MODULE Spec2Model ----
(***************************************************************************)
(* Model of src/stdict.py: the stdict MCP adapter.                         *)
(*                                                                         *)
(* The module resolves a credential once when it is loaded (API_KEY =      *)
(* get_api_key()), and exposes two tools, search and detail, that each     *)
(* build a query-parameter dictionary, issue one requests.get and return   *)
(* either the response text or an "Error: ..." text.                       *)
(*                                                                         *)
(* Conventions.  A Python value that may be None is a sequence of length   *)
(* at most one: <<>> is None (or "argument not passed"), <<v>> is v.       *)
(* A dictionary is a function from its keys (strings) to its values.       *)
(* Text is a TLA+ string; a query is inspected character by character.     *)
(***************************************************************************)
EXTENDS Integers, Sequences, FiniteSets, TLC

VARIABLES
    environ,    \* os.environ.get("STDICT_API_KEY"): <<>> unset, <<v>> set
    config,     \* the Claude desktop configuration file on disk
    API_KEY,    \* the module global bound at line 39
    pc,         \* "start" | "idle" | "search_get" | "detail_get" | "returned" | "terminated"
    call,       \* arguments of the current (or the last) tool invocation
    requests,   \* the requests.get calls issued by that invocation
    response,   \* what requests.get produced for it (NoResponse until then)
    result,     \* the list of TextContent it returned (<<>> until it returns)
    raised      \* class of the exception that left the operation, "" if none

vars == <<environ, config, API_KEY, pc, call, requests, response, result, raised>>

----------------------------------------------------------------------------
(* Bounds of the model *)

\* longest query handed to detail
MaxLen == 2

----------------------------------------------------------------------------
(* Python helpers *)

None == <<>>

Some(v) == <<v>>

\* bool(x) of an optional string: None and "" are falsy
Truthy(x) == x # None /\ x[1] # ""

\* dict.update: the keys of e override those of d
DictUpdate(d, e) ==
    [k \in (DOMAIN d) \cup (DOMAIN e) |-> IF k \in DOMAIN e THEN e[k] ELSE d[k]]

EmptyDict == [k \in {} |-> ""]

\* types.TextContent(type="text", text=t)
TextContent(t) == [type |-> "text", text |-> t]

----------------------------------------------------------------------------
(* Module constants *)

SEARCH_API_URL == "https://stdict.korean.go.kr/api/search.do"

VIEW_API_URL == "https://stdict.korean.go.kr/api/view.do"

----------------------------------------------------------------------------
(* Credential resolver: get_api_key, lines 15-36 *)

\* values the STDICT_API_KEY environment variable can have
EnvValues == {None, Some(""), Some("envkey")}

\* a configuration file: whether the path exists, whether open + json.load
\* succeed, and the parsed document; stat tells whether the path can be
\* examined at all, opens whether open() succeeds
ConfigFile(exists, parses, doc) ==
    [stat |-> "ok", exists |-> exists, opens |-> exists, parses |-> parses, doc |-> doc]

AbsentFile == ConfigFile(FALSE, FALSE, EmptyDict)

MalformedFile == ConfigFile(TRUE, FALSE, EmptyDict)

\* the file is there but the process may not read it: open() raises
UnreadableFile == [ConfigFile(TRUE, FALSE, EmptyDict) EXCEPT !.opens = FALSE]

\* the file lies in a directory the process may not search: stat() fails with
\* EACCES, which Path.exists() does not turn into False
InaccessibleFile == [ConfigFile(TRUE, FALSE, EmptyDict) EXCEPT !.stat = "EACCES", !.opens = FALSE]

ServerDocs ==
    { EmptyDict,
      [mcpServers |-> [other |-> [command |-> "npx"]]],
      [mcpServers |-> [stdict |-> [command |-> "uv"]]],
      [mcpServers |-> [stdict |-> [env |-> [OTHER_KEY |-> "x"]]]],
      [mcpServers |-> [stdict |-> [env |-> [STDICT_API_KEY |-> "filekey"]]]] }

ConfigFiles ==
    {AbsentFile, MalformedFile, UnreadableFile, InaccessibleFile}
        \cup {ConfigFile(TRUE, TRUE, d) : d \in ServerDocs}

\* dict.get(k, default)
DictGet(d, k, default) == IF k \in DOMAIN d THEN d[k] ELSE default

Return(v) == [raises |-> FALSE, value |-> v]

Raise(cls) == [raises |-> TRUE, value |-> cls]

\* line 23, config_path.exists(): False for a missing path, PermissionError
\* when the path cannot be examined
path_exists(c) == IF c.stat = "ok" THEN Return(c.exists) ELSE Raise("PermissionError")

\* lines 25-30, the body of the try: the key found (None when the document
\* has no such entry), or the exception open or json.load raises
config_body(c) ==
    IF ~c.opens THEN Raise("PermissionError")
    ELSE IF ~c.parses THEN Raise("JSONDecodeError")
    ELSE IF "mcpServers" \in DOMAIN c.doc /\ "stdict" \in DOMAIN c.doc["mcpServers"]
         THEN LET env == DictGet(c.doc["mcpServers"]["stdict"], "env", EmptyDict)
              IN  IF "STDICT_API_KEY" \in DOMAIN env
                  THEN Return(Some(env["STDICT_API_KEY"]))
                  ELSE Return(None)
         ELSE Return(None)

\* lines 31-32, the classes the bare "except:" catches: all of them
BareExceptCatches == {"PermissionError", "JSONDecodeError"}

\* lines 23-32: the lookup in the configuration file; None when the file gives
\* no key or reading it fails (the bare except swallows the failure); the
\* exception of line 23 is outside the try and leaves the function
config_lookup(c) ==
    IF path_exists(c).raises THEN path_exists(c)
    ELSE IF ~path_exists(c).value THEN Return(None)
    ELSE IF config_body(c).raises /\ config_body(c).value \in BareExceptCatches THEN Return(None)
    ELSE config_body(c)

\* the resolver with the two sources consulted in the opposite order
get_api_key_file_first(e, c) ==
    IF config_lookup(c).raises THEN config_lookup(c)
    ELSE IF config_lookup(c).value # None THEN Return(config_lookup(c).value[1])
    ELSE IF Truthy(e) THEN Return(e[1])
    ELSE Raise("ValueError")

get_api_key(e, c) ==
    IF Truthy(e) THEN Return(e[1])
    ELSE IF config_lookup(c).raises THEN config_lookup(c)
    ELSE IF config_lookup(c).value # None THEN Return(config_lookup(c).value[1])
    ELSE Raise("ValueError")

----------------------------------------------------------------------------
(* Initial state and module load *)

NoCall == [op |-> "none"]

NoResponse == [kind |-> "none"]

Init ==
    /\ environ \in EnvValues
    /\ config \in ConfigFiles
    /\ API_KEY = ""
    /\ pc = "start"
    /\ call = NoCall
    /\ requests = <<>>
    /\ response = NoResponse
    /\ result = <<>>
    /\ raised = ""

\* line 39: API_KEY = get_api_key(); a ValueError ends the process
LoadModule ==
    /\ pc = "start"
    /\ LET r == get_api_key(environ, config)
       IN  IF r.raises
           THEN /\ pc' = "terminated"
                /\ raised' = r.value
                /\ UNCHANGED API_KEY
           ELSE /\ pc' = "idle"
                /\ API_KEY' = r.value
                /\ UNCHANGED raised
    /\ UNCHANGED <<environ, config, call, requests, response, result>>

Serving == pc \in {"idle", "search_get", "detail_get", "returned"}

\* the environment variable is changed from outside while the server runs
SetEnviron(v) ==
    /\ Serving
    /\ v # environ
    /\ environ' = v
    /\ UNCHANGED <<config, API_KEY, pc, call, requests, response, result, raised>>

\* what the file is turned into while the server runs: it is deleted, or
\* written with a key
RewrittenConfigs ==
    { AbsentFile,
      ConfigFile(TRUE, TRUE, [mcpServers |-> [stdict |-> [env |-> [STDICT_API_KEY |-> "filekey"]]]]) }

\* the configuration file is rewritten from outside while the server runs
WriteConfig(c) ==
    /\ Serving
    /\ c # config
    /\ config' = c
    /\ UNCHANGED <<environ, API_KEY, pc, call, requests, response, result, raised>>

----------------------------------------------------------------------------
(* Arguments the tools are called with *)

\* characters a query is made of: an ASCII digit, a digit that is not a
\* decimal digit (SUPERSCRIPT TWO), a letter
Alphabet == {"7", "²", "a"}

RECURSIVE Strings(_)
\* the strings over Alphabet of length at most n
Strings(n) ==
    IF n = 0 THEN {""}
    ELSE LET S == Strings(n - 1) IN S \cup {s \o c : s \in S, c \in Alphabet}

DetailQueries == Strings(MaxLen)

SearchQueries == {"a7"}

\* api_key argument: not passed (the default applies) or passed
ApiKeyArgs == {None, Some("callerkey")}

ReqTypes == {"json", "xml", "yaml"}

\* method argument of detail: not passed, valid, invalid
DetailMethods == {None, Some("word_info"), Some("target_code"), Some("bogus")}

\* (start, num) of search: the defaults and a pair outside the remote ranges
Windows == {[start |-> 1, num |-> 10], [start |-> 0, num |-> 500]}

\* the nine filter arguments of search: the defaults of lines 50-58 and a
\* bundle in which every field differs from the others
FilterArgs ==
    { [target |-> 1, method |-> "exact", type1 |-> "all", type2 |-> "all",
       pos |-> "0", cat |-> "0", multimedia |-> "0", letter_s |-> 1, letter_e |-> 1],
      [target |-> 8, method |-> "wildcard", type1 |-> "word,phrase", type2 |-> "native",
       pos |-> "1,2", cat |-> "27", multimedia |-> "3,4", letter_s |-> 2, letter_e |-> 5] }

\* (update_s, update_e): each is None (the default), empty, or a date
DateArgs ==
    { [update_s |-> None, update_e |-> None],
      [update_s |-> Some(""), update_e |-> Some("20230101")],
      [update_s |-> Some("20220101"), update_e |-> None],
      [update_s |-> None, update_e |-> Some("")],
      [update_s |-> Some("20220101"), update_e |-> Some("20230101")] }

SearchArgs ==
    { [op |-> "search", query |-> q, api_key |-> k, req_type |-> r, window |-> w,
       advanced |-> adv, filters |-> f, update_s |-> d.update_s, update_e |-> d.update_e] :
        q \in SearchQueries, k \in ApiKeyArgs, r \in {"json", "yaml"}, w \in Windows,
        adv \in BOOLEAN, f \in FilterArgs, d \in DateArgs }

DetailArgs ==
    [op : {"detail"}, query : DetailQueries, api_key : ApiKeyArgs,
     method : DetailMethods, req_type : ReqTypes]

\* the default resolved again at every call
DefaultApiKey_call_time ==
    LET r == get_api_key(environ, config) IN IF r.raises THEN "" ELSE r.value

\* lines 45 and 455: the default of api_key is the value API_KEY had when the
\* function was defined
DefaultApiKey == API_KEY

\* the value of the api_key parameter inside the function body
ApiKeyOf(a) == IF a.api_key = None THEN DefaultApiKey ELSE a.api_key[1]

----------------------------------------------------------------------------
(* The remote service, as seen through requests.get *)

\* locations holds the Location of every redirect (302) requests.get followed
\* on the way to this outcome, in order: the call put 1 + Len(locations) GET
\* requests on the wire, and the response carries the URL of the last one
HttpResponse(status, reason, text) ==
    [kind |-> "response", status |-> status, reason |-> reason, text |-> text,
     locations |-> <<>>]

HttpException(cls, msg) == [kind |-> "exception", cls |-> cls, msg |-> msg, locations |-> <<>>]

\* the outcome o reached after the server answered with one redirect for each
\* element of locs, which requests.get follows by itself
Redirected(o, locs) == [o EXCEPT !.locations = locs]

\* the number of redirects followed on the way to o
hops(o) == Len(o.locations)

MOVED_URL == "https://stdict.korean.go.kr/moved.do"

MIRROR_URL == "https://mirror.example/view?id=1"

\* what one requests.get can produce: a response, or an exception.  304 stands
\* for the statuses outside 2xx for which raise_for_status does not raise
\* (1xx, 3xx, 600 and above); KeyboardInterrupt for the exceptions that are
\* not subclasses of Exception
HttpOutcomes ==
    { HttpResponse(200, "OK", " <channel/> "),
      Redirected(HttpResponse(200, "OK", " <channel/> "), <<MOVED_URL>>),
      HttpResponse(304, "Not Modified", ""),
      HttpResponse(404, "Not Found", "<html/>"),
      Redirected(HttpResponse(404, "Not Found", "<html/>"), <<MOVED_URL>>),
      HttpResponse(500, "Server Error", ""),
      Redirected(HttpResponse(500, "Server Error", ""), <<MOVED_URL, MIRROR_URL>>),
      HttpException("ConnectionError", "Connection refused"),
      HttpException("RuntimeError", "boom"),
      HttpException("KeyboardInterrupt", "") }

\* the classes a handler limited to requests.RequestException would catch
RequestExceptionSubclasses == {"ConnectionError", "HTTPError"}

\* lines 431 and 550, the classes caught by "except Exception": the subclasses
\* of Exception (KeyboardInterrupt is not one)
ExceptionSubclasses == {"ConnectionError", "HTTPError", "RuntimeError"}

Returned(text) == [raises |-> FALSE, text |-> text]

Raised(cls, msg) == [raises |-> TRUE, cls |-> cls, msg |-> msg]

\* the order in which search inserts its keys into params (lines 393-422)
SearchParamOrder ==
    <<"key", "q", "req_type", "start", "num", "advanced", "type_search",
      "target", "method", "type1", "type2", "pos", "cat", "multimedia",
      "letter_s", "letter_e", "update_s", "update_e">>

\* the order in which detail inserts its keys into params (lines 535-541)
DetailParamOrder == <<"key", "method", "req_type", "q", "type_search">>

\* the parameters whose values are integers
IntParams == {"start", "num", "target", "letter_s", "letter_e"}

\* urllib's quote_plus of one character, for the characters the arguments are
\* made of: letters, digits, "_", ".", "-" and "~" stay; the others are
\* replaced by the %XX of their UTF-8 bytes, a blank by "+"
QuoteChar(c) ==
    CASE c = "," -> "%2C"
      [] c = "²" -> "%C2%B2"
      [] c = " " -> "+"
      [] OTHER -> c

RECURSIVE quote_plus(_)
quote_plus(str) ==
    IF str = "" THEN ""
    ELSE QuoteChar(SubSeq(str, 1, 1)) \o quote_plus(SubSeq(str, 2, Len(str)))

\* the text of one value in the query string
ParamText(k, v) == IF k \in IntParams THEN ToString(v) ELSE quote_plus(v)

RECURSIVE EncodeFrom(_, _, _)
\* urlencode of the entries of params from position i of order on
EncodeFrom(params, order, i) ==
    IF i > Len(order) THEN ""
    ELSE LET k == order[i]
             rest == EncodeFrom(params, order, i + 1)
         IN  IF k \notin DOMAIN params THEN rest
             ELSE IF rest = "" THEN k \o "=" \o ParamText(k, params[k])
             ELSE k \o "=" \o ParamText(k, params[k]) \o "&" \o rest

Request(url, params) == [url |-> url, params |-> params]

\* the URL requests.get prepares and the response carries: the endpoint, "?"
\* and the encoded parameters in insertion order
prepared_url(req, order) == req.url \o "?" \o EncodeFrom(req.params, order, 1)

\* Response.url: the URL of the request this response answers, which is the
\* prepared one, or the last Location when redirects were followed
response_url(o, req, order) ==
    IF o.locations = <<>> THEN prepared_url(req, order) ELSE o.locations[Len(o.locations)]

\* response.raise_for_status(): HTTPError for a 4xx or 5xx status, with the
\* message requests builds; url is the URL of the response
raise_for_status(resp, url) ==
    IF resp.status >= 400 /\ resp.status < 500
    THEN Raised("HTTPError", ToString(resp.status) \o " Client Error: " \o resp.reason \o " for url: " \o url)
    ELSE IF resp.status >= 500 /\ resp.status < 600
    THEN Raised("HTTPError", ToString(resp.status) \o " Server Error: " \o resp.reason \o " for url: " \o url)
    ELSE Returned(resp.text)

----------------------------------------------------------------------------
(* search, lines 42-432 *)

\* the date bound tested with "is not None" instead of its truth value
DateParam_is_not_none(name, v) == IF v # None THEN [k \in {name} |-> v[1]] ELSE EmptyDict

\* lines 416-420: a date bound enters advanced_params only when it is truthy
DateParam(name, v) == IF Truthy(v) THEN [k \in {name} |-> v[1]] ELSE EmptyDict

\* the dictionary built with the merge of line 422 outside the "if advanced"
search_params_always_merge(a) ==
    DictUpdate([key |-> ApiKeyOf(a),
                q |-> a.query,
                req_type |-> a.req_type,
                start |-> a.window.start,
                num |-> a.window.num,
                advanced |-> IF a.advanced THEN "y" ELSE "n",
                type_search |-> "search"],
               DictUpdate(DictUpdate(a.filters, DateParam("update_s", a.update_s)),
                          DateParam("update_e", a.update_e)))

\* lines 393-422: the dictionary handed to requests.get
search_params(a) ==
    LET params ==
            [key |-> ApiKeyOf(a),
             q |-> a.query,
             req_type |-> a.req_type,
             start |-> a.window.start,
             num |-> a.window.num,
             advanced |-> IF a.advanced THEN "y" ELSE "n",
             type_search |-> "search"]
        advanced_params ==
            DictUpdate(DictUpdate(a.filters, DateParam("update_s", a.update_s)),
                       DateParam("update_e", a.update_e))
    IN  IF a.advanced THEN DictUpdate(params, advanced_params) ELSE params

\* the try block returning the response object's repr instead of its text
search_try_repr(o) ==
    IF o.kind = "exception" THEN Raised(o.cls, o.msg)
    ELSE IF raise_for_status(o, response_url(o, requests[1], SearchParamOrder)).raises
    THEN raise_for_status(o, response_url(o, requests[1], SearchParamOrder))
    ELSE Returned("<Response [" \o ToString(o.status) \o "]>")

\* lines 425-426: requests.get followed by raise_for_status
search_try(o) ==
    IF o.kind = "exception" THEN Raised(o.cls, o.msg)
    ELSE raise_for_status(o, response_url(o, requests[1], SearchParamOrder))

\* the tool is invoked: lines 393-425, up to the blocking requests.get
SearchCall(a) ==
    /\ pc = "idle"
    /\ call' = a
    /\ requests' = <<Request(SEARCH_API_URL, search_params(a))>>
    /\ response' = NoResponse
    /\ result' = <<>>
    /\ raised' = ""
    /\ pc' = "search_get"
    /\ UNCHANGED <<environ, config, API_KEY>>

\* the handler issuing the GET a second time after a failure
SearchReturn_retry(o) ==
    /\ pc = "search_get"
    /\ response' = o
    /\ LET t == search_try(o)
       IN  IF ~t.raises
           THEN /\ result' = <<TextContent(t.text)>>
                /\ UNCHANGED <<raised, requests>>
           ELSE IF t.cls \in ExceptionSubclasses
           THEN /\ result' = <<TextContent("Error: " \o t.msg)>>
                /\ requests' = Append(requests, requests[1])
                /\ UNCHANGED raised
           ELSE /\ raised' = t.cls
                /\ UNCHANGED <<result, requests>>
    /\ pc' = "returned"
    /\ UNCHANGED <<environ, config, API_KEY, call>>

\* requests.get completes: lines 425-432
SearchReturn(o) ==
    /\ pc = "search_get"
    /\ response' = o
    /\ LET t == search_try(o)
       IN  IF ~t.raises
           THEN /\ result' = <<TextContent(t.text)>>
                /\ UNCHANGED raised
           ELSE IF t.cls \in ExceptionSubclasses
           THEN /\ result' = <<TextContent("Error: " \o t.msg)>>
                /\ UNCHANGED raised
           ELSE /\ raised' = t.cls
                /\ UNCHANGED result
    /\ pc' = "returned"
    /\ UNCHANGED <<environ, config, API_KEY, call, requests>>

----------------------------------------------------------------------------
(* detail, lines 435-551 *)

\* the characters c for which c.isdigit() holds
DigitChars == {"0", "1", "2", "3", "4", "5", "6", "7", "8", "9", "¹", "²", "³"}

\* str.isdigit(): at least one character, and every character is a digit
isdigit(s) == Len(s) > 0 /\ \A i \in 1..Len(s) : SubSeq(s, i, i) \in DigitChars

\* lines 435-449
determine_method(query) == IF isdigit(query) THEN "target_code" ELSE "word_info"

\* lines 524-525
method_of(a) == IF a.method = None THEN determine_method(a.query) ELSE a.method[1]

\* lines 535-541
detail_params(a) ==
    [key |-> ApiKeyOf(a),
     method |-> method_of(a),
     req_type |-> a.req_type,
     q |-> a.query,
     type_search |-> "view"]

InvalidMethodText == "Error: Invalid method value. Must be 'word_info' or 'target_code'"

InvalidReqTypeText == "Error: Invalid req_type value. Must be 'json' or 'xml'"

\* lines 544-545
detail_try(o) ==
    IF o.kind = "exception" THEN Raised(o.cls, o.msg)
    ELSE raise_for_status(o, response_url(o, requests[1], DetailParamOrder))

\* the validation with the two checks in the opposite order
detail_validate_req_type_first(a) ==
    IF a.req_type \notin {"json", "xml"} THEN Some(InvalidReqTypeText)
    ELSE IF method_of(a) \notin {"word_info", "target_code"} THEN Some(InvalidMethodText)
    ELSE None

\* the validation without the req_type check
detail_validate_method_only(a) ==
    IF method_of(a) \notin {"word_info", "target_code"} THEN Some(InvalidMethodText)
    ELSE None

\* lines 527-533: the text of the validation error, None when the arguments pass
detail_validate(a) ==
    IF method_of(a) \notin {"word_info", "target_code"} THEN Some(InvalidMethodText)
    ELSE IF a.req_type \notin {"json", "xml"} THEN Some(InvalidReqTypeText)
    ELSE None

\* the tool is invoked: lines 523-544, up to the blocking requests.get or to
\* the return of a validation error
DetailCall(a) ==
    /\ pc = "idle"
    /\ call' = a
    /\ response' = NoResponse
    /\ raised' = ""
    /\ IF detail_validate(a) # None
       THEN /\ result' = <<TextContent(detail_validate(a)[1])>>
            /\ requests' = <<>>
            /\ pc' = "returned"
       ELSE /\ result' = <<>>
            /\ requests' = <<Request(VIEW_API_URL, detail_params(a))>>
            /\ pc' = "detail_get"
    /\ UNCHANGED <<environ, config, API_KEY>>

\* requests.get completes: lines 544-551
DetailReturn(o) ==
    /\ pc = "detail_get"
    /\ response' = o
    /\ LET t == detail_try(o)
       IN  IF ~t.raises
           THEN /\ result' = <<TextContent(t.text)>>
                /\ UNCHANGED raised
           ELSE IF t.cls \in ExceptionSubclasses
           THEN /\ result' = <<TextContent("Error: " \o t.msg)>>
                /\ UNCHANGED raised
           ELSE /\ raised' = t.cls
                /\ UNCHANGED result
    /\ pc' = "returned"
    /\ UNCHANGED <<environ, config, API_KEY, call, requests>>

----------------------------------------------------------------------------
(* The host, lines 554-556 *)

\* mcp.run hands the returned list (or the fault) to the caller; the locals of
\* the invocation are gone and the server waits for the next message
Deliver ==
    /\ pc = "returned"
    /\ pc' = "idle"
    /\ call' = NoCall
    /\ requests' = <<>>
    /\ response' = NoResponse
    /\ result' = <<>>
    /\ raised' = ""
    /\ UNCHANGED <<environ, config, API_KEY>>

----------------------------------------------------------------------------
(* Specification *)

Next ==
    \/ LoadModule
    \/ \E v \in EnvValues : SetEnviron(v)
    \/ \E c \in RewrittenConfigs : WriteConfig(c)
    \/ \E a \in SearchArgs : SearchCall(a)
    \/ \E o \in HttpOutcomes : SearchReturn(o)
    \/ \E a \in DetailArgs : DetailCall(a)
    \/ \E o \in HttpOutcomes : DetailReturn(o)
    \/ Deliver

Spec == Init /\ [][Next]_vars

TypeOK ==
    /\ environ \in EnvValues
    /\ config \in ConfigFiles
    /\ pc \in {"start", "idle", "search_get", "detail_get", "returned", "terminated"}
    /\ Len(requests) <= 1

----------------------------------------------------------------------------
(* Properties of detail's validation *)

\* C1: a detail call whose method argument is supplied and is neither
\* 'word_info' nor 'target_code' has returned the single text "Error: Invalid
\* method value. Must be 'word_info' or 'target_code'" and has issued no
\* requests.get, whatever the query and the api_key.
C1_InvalidMethodRejected ==
    (/\ call.op = "detail"
     /\ call.method # None
     /\ call.method[1] \notin {"word_info", "target_code"})
    => /\ pc = "returned"
       /\ result = <<[type |-> "text",
                      text |-> "Error: Invalid method value. Must be 'word_info' or 'target_code'"]>>
       /\ requests = <<>>
       /\ response = NoResponse
       /\ raised = ""

\* a detail call with method "bogus" and an invalid req_type has returned
C1_Witness ==
    /\ pc = "returned"
    /\ call.op = "detail"
    /\ call.method = Some("bogus")
    /\ call.req_type = "yaml"
    /\ call.api_key # None
    /\ Len(result) = 1

\* C2: a detail call whose method is absent or valid and whose req_type is
\* neither 'json' nor 'xml' has returned the single text "Error: Invalid
\* req_type value. Must be 'json' or 'xml'" and has issued no requests.get.
C2_InvalidReqTypeRejected ==
    (/\ call.op = "detail"
     /\ (call.method = None \/ call.method[1] \in {"word_info", "target_code"})
     /\ call.req_type \notin {"json", "xml"})
    => /\ pc = "returned"
       /\ result = <<[type |-> "text",
                      text |-> "Error: Invalid req_type value. Must be 'json' or 'xml'"]>>
       /\ requests = <<>>
       /\ response = NoResponse
       /\ raised = ""

\* a detail call without method and with req_type "yaml" has returned
C2_Witness ==
    /\ pc = "returned"
    /\ call.op = "detail"
    /\ call.method = None
    /\ call.req_type = "yaml"
    /\ Len(result) = 1

----------------------------------------------------------------------------
(* Properties of the parameters of search *)

\* the parameters of the request the current search invocation issued
SearchParams == requests[1].params

BaseKeys == {"key", "q", "req_type", "start", "num", "advanced"}

FilterKeys ==
    {"target", "method", "type1", "type2", "pos", "cat", "multimedia", "letter_s", "letter_e"}

\* the value of the api_key parameter: the caller's, else the module's API_KEY
CallerKey == IF call.api_key = None THEN API_KEY ELSE call.api_key[1]

BaseValuesPassedThrough ==
    /\ SearchParams["key"] = CallerKey
    /\ SearchParams["q"] = call.query
    /\ SearchParams["req_type"] = call.req_type
    /\ SearchParams["start"] = call.window.start
    /\ SearchParams["num"] = call.window.num

\* C3 as stated: for a search call with advanced = false the parameter set has
\* exactly the keys key, q, req_type, start, num and advanced, with advanced =
\* "n" and the other five equal to the caller's arguments, and no other key.
C3_Original ==
    (call.op = "search" /\ ~call.advanced)
    => /\ Len(requests) = 1
       /\ DOMAIN SearchParams = BaseKeys
       /\ SearchParams["advanced"] = "n"
       /\ BaseValuesPassedThrough

\* C3 as amended: for a search call with advanced = false the parameter set has
\* exactly the keys key, q, req_type, start, num, advanced and type_search,
\* with advanced = "n", type_search = "search" and the other five equal to the
\* caller's arguments; it contains no other key.
C3_BaseParamsWithTypeSearch ==
    (call.op = "search" /\ ~call.advanced)
    => /\ Len(requests) = 1
       /\ requests[1].url = "https://stdict.korean.go.kr/api/search.do"
       /\ DOMAIN SearchParams = BaseKeys \cup {"type_search"}
       /\ SearchParams["advanced"] = "n"
       /\ SearchParams["type_search"] = "search"
       /\ BaseValuesPassedThrough

\* a search with advanced = false, non-default filters and both dates given is
\* waiting for its response
C3_Witness ==
    /\ pc = "search_get"
    /\ call.op = "search"
    /\ ~call.advanced
    /\ call.filters.target = 8
    /\ call.update_s = Some("20220101")
    /\ call.update_e = Some("20230101")
    /\ call.window.start = 0
    /\ Len(requests) = 1

\* C4: in every search request the nine filter keys are present if and only if
\* advanced is true, update_s (update_e) is present if and only if advanced is
\* true and the caller's update_s (update_e) is non-empty, and each present key
\* carries the caller's value unchanged.
C4_FiltersIffAdvanced ==
    call.op = "search"
    => /\ Len(requests) = 1
       /\ \A k \in FilterKeys :
            /\ k \in DOMAIN SearchParams <=> call.advanced
            /\ k \in DOMAIN SearchParams => SearchParams[k] = call.filters[k]
       /\ "update_s" \in DOMAIN SearchParams
            <=> (call.advanced /\ call.update_s # None /\ call.update_s # Some(""))
       /\ "update_e" \in DOMAIN SearchParams
            <=> (call.advanced /\ call.update_e # None /\ call.update_e # Some(""))
       /\ "update_s" \in DOMAIN SearchParams => SearchParams["update_s"] = call.update_s[1]
       /\ "update_e" \in DOMAIN SearchParams => SearchParams["update_e"] = call.update_e[1]

\* an advanced search with update_s = "" and update_e = "20230101" is waiting
\* for its response: update_e was sent, update_s was not
C4_Witness ==
    /\ pc = "search_get"
    /\ call.op = "search"
    /\ call.advanced
    /\ call.filters.target = 8
    /\ call.update_s = Some("")
    /\ call.update_e = Some("20230101")
    /\ "update_e" \in DOMAIN SearchParams
    /\ "update_s" \notin DOMAIN SearchParams

----------------------------------------------------------------------------
(* Properties of method inference *)

DecimalDigits == {"0", "1", "2", "3", "4", "5", "6", "7", "8", "9"}

\* s has at least one character and all its characters are decimal digits
AllDecimalDigits(s) == Len(s) > 0 /\ \A i \in 1..Len(s) : SubSeq(s, i, i) \in DecimalDigits

\* s has a character that is not a decimal digit
HasNonDigit(s) == \E i \in 1..Len(s) : SubSeq(s, i, i) \notin DecimalDigits

\* C5: method inference gives 'target_code' for every string that consists
\* entirely of decimal digits and 'word_info' for every string that contains
\* any non-digit character; detail without a method sends the inferred value
\* as the outbound method, and detail with a valid explicit method sends that
\* method whatever the query looks like.
C5_MethodInference ==
    call.op = "detail"
    => /\ AllDecimalDigits(call.query) => determine_method(call.query) = "target_code"
       /\ HasNonDigit(call.query) => determine_method(call.query) = "word_info"
       /\ (requests # <<>> /\ call.method = None /\ AllDecimalDigits(call.query))
            => requests[1].params["method"] = "target_code"
       /\ (requests # <<>> /\ call.method = None /\ HasNonDigit(call.query))
            => requests[1].params["method"] = "word_info"
       /\ (requests # <<>> /\ call.method # None)
            => requests[1].params["method"] = call.method[1]

----------------------------------------------------------------------------
(* Properties of the outcome of a call *)

\* the process was interrupted while requests.get was running; this is not an
\* answer of the remote service
Interrupted(o) == o.kind = "exception" /\ o.cls = "KeyboardInterrupt"

\* the outbound call failed: requests.get raised, or the status is not 2xx
Failed(o) ==
    \/ o.kind = "exception" /\ ~Interrupted(o)
    \/ o.kind = "response" /\ ~(o.status >= 200 /\ o.status < 300)

Succeeded(o) == o.kind = "response" /\ o.status >= 200 /\ o.status < 300

\* C6: for search and detail alike, when the outbound call fails (network
\* error, non-success status, any other exception while sending) the call
\* returns a single text result "Error: " followed by the description of the
\* failure, and no exception leaves the operation; every invocation that has
\* come back has come back with a result.
C6_FailuresReported ==
    /\ (Serving /\ ~Interrupted(response)) => raised = ""
    /\ (pc = "returned" /\ ~Interrupted(response)) => Len(result) = 1
    /\ (pc = "returned" /\ Failed(response))
       => /\ Len(result) = 1
          /\ result[1].type = "text"
          /\ Len(result[1].text) >= 7
          /\ SubSeq(result[1].text, 1, 7) = "Error: "
          /\ response.kind = "exception" => result[1].text = "Error: " \o response.msg
          /\ response.kind = "response"
               => /\ Len(result[1].text) >= 10
                  /\ SubSeq(result[1].text, 8, 10) = ToString(response.status)

\* a detail call has returned after requests.get raised a non-requests exception
C6_Witness ==
    /\ pc = "returned"
    /\ call.op = "detail"
    /\ response = HttpException("RuntimeError", "boom")
    /\ result = <<[type |-> "text", text |-> "Error: boom"]>>

\* C9: for search and detail alike, when the outbound call succeeds the call
\* returns exactly one text result whose text is the response body, unchanged.
C9_BodyReturnedVerbatim ==
    (pc = "returned" /\ Succeeded(response))
    => /\ result = <<[type |-> "text", text |-> response.text]>>
       /\ raised = ""

\* a search has returned a body with leading and trailing blanks as it came
C9_Witness ==
    /\ pc = "returned"
    /\ call.op = "search"
    /\ response.kind = "response"
    /\ response.status = 200
    /\ response.text = " <channel/> "
    /\ result[1].text = " <channel/> "

\* detail returns without a request: an explicit method outside the two valid
\* ones, or a req_type outside json and xml
DetailRejects ==
    \/ call.method # None /\ call.method[1] \notin {"word_info", "target_code"}
    \/ call.req_type \notin {"json", "xml"}

AtMostOneGet ==
    /\ Len(requests) <= 1
    /\ call.op = "search" => Len(requests) = 1
    /\ call.op = "detail" => Len(requests) = (IF DetailRejects THEN 0 ELSE 1)
    /\ (pc = "returned" /\ Failed(response)) => Len(requests) = 1

\* an invocation starts only when the previous one has returned and its result
\* has been handed over
StartsAfterReturn == (call' # call /\ call' # NoCall) => (pc = "idle" /\ call = NoCall)

\* the GET requests the current invocation has put on the wire: each
\* requests.get sends one, and one more for every redirect it followed
WireGets == IF response = NoResponse THEN Len(requests) ELSE Len(requests) + hops(response)

AtMostOneWireGet ==
    /\ WireGets <= 1
    /\ (pc = "returned" /\ call.op = "search") => WireGets = 1
    /\ (pc = "returned" /\ call.op = "detail") => WireGets = (IF DetailRejects THEN 0 ELSE 1)

\* C8 as stated: over any sequence of search and detail invocations, each
\* invocation issues at most one outbound HTTP GET (exactly one when it passes
\* local validation, none when detail rejects its arguments), a failed GET is
\* never retried, and the invocation returns before the next one starts.
C8_Original == []AtMostOneWireGet /\ [][StartsAfterReturn]_vars

\* C8 as amended: over any sequence of search and detail invocations, each
\* invocation calls requests.get at most once (exactly once when it passes
\* local validation, never when detail rejects its arguments), a failed call
\* is not repeated, and the invocation returns before the next one starts; the
\* one call may send more than one GET, because it follows redirects.
C8_OneGetPerInvocation == []AtMostOneGet /\ [][StartsAfterReturn]_vars

\* a search has returned after a refused connection, with its single request
C8_Witness ==
    /\ pc = "returned"
    /\ call.op = "search"
    /\ response = HttpException("ConnectionError", "Connection refused")
    /\ result = <<[type |-> "text", text |-> "Error: Connection refused"]>>
    /\ Len(requests) = 1

----------------------------------------------------------------------------
(* Properties of the credential *)

EnvProvides == environ # None /\ environ # Some("")

\* the file exists, parses and holds mcpServers.stdict.env.STDICT_API_KEY
FileProvides ==
    /\ config.stat = "ok"
    /\ config.exists
    /\ config.opens
    /\ config.parses
    /\ "mcpServers" \in DOMAIN config.doc
    /\ "stdict" \in DOMAIN config.doc.mcpServers
    /\ "env" \in DOMAIN config.doc.mcpServers.stdict
    /\ "STDICT_API_KEY" \in DOMAIN config.doc.mcpServers.stdict.env

FileKey == config.doc.mcpServers.stdict.env.STDICT_API_KEY

ResolutionOrder ==
    pc = "start"
    => /\ (EnvProvides /\ FileProvides) => (pc' = "idle" /\ API_KEY' = environ[1])
       /\ (~EnvProvides /\ FileProvides) => (pc' = "idle" /\ API_KEY' = FileKey)
       /\ (~EnvProvides /\ ~FileProvides) => (pc' = "terminated" /\ raised' = "ValueError")

\* C7: credential resolution gives the environment variable's value when both
\* the environment variable and the configuration file provide a key, the
\* file's value when only the file provides one, and fails with the
\* configuration error when neither provides one.
C7_ResolutionOrder == [][ResolutionOrder]_vars

\* the module has just been loaded with a key in both sources: the
\* environment's key is the credential
C7_Witness ==
    /\ pc = "idle"
    /\ call = NoCall
    /\ EnvProvides
    /\ FileProvides
    /\ API_KEY = "envkey"
    /\ FileKey = "filekey"

KeySent ==
    requests # <<>>
    => requests[1].params["key"] = (IF call.api_key = None THEN API_KEY ELSE call.api_key[1])

CredentialFrozen == pc # "start" => API_KEY' = API_KEY

\* C10: the credential is resolved once when the module is loaded and never
\* changes afterwards: a call that passes no api_key sends the key resolved at
\* load time, even if the environment or the configuration file changed since;
\* a call that passes an api_key sends that value; and no call changes the
\* default of the calls that follow.
C10_CredentialResolvedOnce == []KeySent /\ [][CredentialFrozen]_vars

\* a call without api_key is in flight with the key resolved at load time,
\* while the environment now holds another key
C10_Witness ==
    /\ pc \in {"search_get", "detail_get"}
    /\ call.api_key = None
    /\ API_KEY = "filekey"
    /\ environ = Some("envkey")
    /\ requests[1].params["key"] = "filekey"

\* the configuration file is malformed, unreadable, or lacks the server entry
\* or the key
ConfigDefective ==
    \/ config.stat # "ok"
    \/ config.exists /\ ~config.opens
    \/ config.exists /\ config.opens /\ ~config.parses
    \/ config.exists /\ config.opens /\ config.parses /\ ~FileProvides

TreatedAsAbsent ==
    (pc = "start" /\ ~EnvProvides /\ ConfigDefective)
    => /\ pc' = "terminated"
       /\ raised' = "ValueError"
       /\ API_KEY' = API_KEY

\* C11: when the environment variable gives no key, a configuration file that
\* is malformed, unreadable, or lacks the server entry or the key is treated
\* exactly like an absent file: resolution ends in the configuration error
\* raised when no key is found, never in a parse or I/O error and never in a
\* returned key.
C11_DefectiveConfigAsAbsent == [][TreatedAsAbsent]_vars

====
